---- MODULE Spec2Model ----
(***************************************************************************)
(* Model of the Aadhaar analytics batch pipeline:                          *)
(*   build_aadhaar_master_dataset.py  (wide CSV exports -> master table)   *)
(*   uidai_full_ml_pipeline.py        (master table -> monthly aggregate,  *)
(*                                     forecast, staleness, ASRI)          *)
(* Tables are sequences of records (row order is part of the state).       *)
(* A missing cell (pandas NaN) of an integer column is the empty sequence, *)
(* a present cell <<v>>.  Float columns are records with a kind            *)
(* (num / nan / inf / ninf) and an exact fraction n/d.                     *)
(***************************************************************************)
EXTENDS Integers, Sequences, FiniteSets, TLC

VARIABLES
    pc,              \* position in the two scripts
    enrol_dir,       \* input folder: a sequence of files, each a sequence of wide rows
    bio_dir,
    demo_dir,
    enrol_df,        \* process_enrolment_folder result (long form)
    bio_df,
    demo_df,
    master,          \* build_master_dataset result / the master CSV
    df,              \* the master table as loaded by the pipeline script
    monthly,         \* monthly aggregate table
    runs,            \* how many times the monthly aggregation has been evaluated
    enrol,           \* monthly rows of source_type enrolment, with features
    rf,              \* the regression model object: what it was last fitted on
    future,          \* forecast frame
    bootstrap_preds, \* list of bootstrap prediction vectors
    ratio,           \* (district, month) update ratio table
    stale_regions,   \* flagged rows of ratio
    asri             \* readiness index table

vars == <<pc, enrol_dir, bio_dir, demo_dir, enrol_df, bio_df, demo_df, master,
          df, monthly, runs, enrol, rf, future, bootstrap_preds, ratio,
          stale_regions, asri>>

(***************************************************************************)
(* Scalars                                                                 *)
(***************************************************************************)

\* A missing integer cell (NaN) and a present one.
NaN == <<>>
Cell(v) == <<v>>
IsNa(c) == c = <<>>

\* A date that failed to parse (pd.to_datetime(errors="coerce") gives NaT).
NaT == [y |-> 0, m |-> 0, d |-> 0]
Date(y, m, d) == [y |-> y, m |-> m, d |-> d]
DateRank(t) == t.y * 10000 + t.m * 100 + t.d

\* Python compares strings by code point: digits < upper case < lower case.
StrOrder ==
    <<"0_5", "18_plus", "5_17", "DistrictX", "DistrictY", "DistrictZ",
      "StateA", "StateB", "biometric", "demographic", "enrolment">>
StrRank(s) == CHOOSE i \in 1..Len(StrOrder) : StrOrder[i] = s

RECURSIVE LexLess(_, _)
\* Lexicographic order on equal-length sequences of integers.
LexLess(a, b) ==
    IF a = <<>> \/ b = <<>> THEN FALSE
    ELSE IF Head(a) # Head(b) THEN Head(a) < Head(b)
    ELSE LexLess(Tail(a), Tail(b))

RECURSIVE InsertStable(_, _)
\* Insert the keyed row x into the sorted sequence s after every element whose
\* key is not greater than its own.
InsertStable(s, x) ==
    IF s = <<>> THEN <<x>>
    ELSE IF LexLess(x.k, Head(s).k) THEN <<x>> \o s
    ELSE <<Head(s)>> \o InsertStable(Tail(s), x)

RECURSIVE StableSort(_)
\* Stable sort of a sequence of [k |-> key, v |-> row] by k (ties keep their order).
StableSort(s) ==
    IF s = <<>> THEN <<>>
    ELSE InsertStable(StableSort(SubSeq(s, 1, Len(s) - 1)), s[Len(s)])

Values(s) == [i \in 1..Len(s) |-> s[i].v]

RECURSIVE Flatten(_)
\* pd.concat(frames, ignore_index=True)
Flatten(frames) ==
    IF frames = <<>> THEN <<>> ELSE Head(frames) \o Flatten(Tail(frames))

Range(s) == {s[i] : i \in DOMAIN s}

(***************************************************************************)
(* build_aadhaar_master_dataset.py                                         *)
(***************************************************************************)

EnrolVarsShort == <<"age_0_5", "age_5_17">>
EnrolVars == <<"age_0_5", "age_5_17", "age_18_greater">>
BioVars == <<"bio_age_5_17", "bio_age_17_">>
DemoVars == <<"demo_age_5_17", "demo_age_17_">>

\* The three age_group maps (one dictionary per family in the source).
AgeGroupMap(col) ==
    CASE col = "age_0_5" -> "0_5"
      [] col = "age_5_17" -> "5_17"
      [] col = "age_18_greater" -> "18_plus"
      [] col = "bio_age_5_17" -> "5_17"
      [] col = "bio_age_17_" -> "18_plus"
      [] col = "demo_age_5_17" -> "5_17"
      [] col = "demo_age_17_" -> "18_plus"

\* load_and_clean_csv: rows whose date did not parse are dropped.
DateParsed(r) == r.date # NaT
load_and_clean_csv(file) == SelectSeq(file, DateParsed)

\* One melted row: the identifiers, the measure's column name and its cell.
MeltRow(r, col) ==
    [date |-> r.date, state |-> r.state, district |-> r.district,
     pincode |-> r.pincode, age_group |-> col, count |-> r.m[col]]

RECURSIVE Melt(_, _)
\* DataFrame.melt: one block of rows per value column, blocks in column order.
Melt(wide, value_vars) ==
    IF value_vars = <<>> THEN <<>>
    ELSE [i \in 1..Len(wide) |-> MeltRow(wide[i], Head(value_vars))]
         \o Melt(wide, Tail(value_vars))

\* The body of the per-file loop: melt, map age_group, stamp source_type.
ProcessFile(file, value_vars, source_type) ==
    LET long == Melt(load_and_clean_csv(file), value_vars)
    IN  [i \in 1..Len(long) |->
            [date |-> long[i].date, state |-> long[i].state,
             district |-> long[i].district, pincode |-> long[i].pincode,
             age_group |-> AgeGroupMap(long[i].age_group),
             count |-> long[i].count, source_type |-> source_type]]

ProcessFolder(folder, value_vars, source_type) ==
    Flatten([f \in 1..Len(folder) |-> ProcessFile(folder[f], value_vars, source_type)])

process_enrolment_folder(folder) == ProcessFolder(folder, EnrolVars, "enrolment")
process_biometric_folder(folder) == ProcessFolder(folder, BioVars, "biometric")
process_demographic_folder(folder) == ProcessFolder(folder, DemoVars, "demographic")

\* master["count"].fillna(0).astype(int) on one cell.
FillCountMinusOne(c) == IF IsNa(c) THEN 0 - 1 ELSE c[1]
FillCount(c) == IF IsNa(c) THEN 0 ELSE c[1]

MasterKey(r) ==
    <<DateRank(r.date), StrRank(r.state), StrRank(r.district), r.pincode,
      StrRank(r.source_type), StrRank(r.age_group)>>

\* build_master_dataset after the three folders are processed:
\* concat, fill and cast count, sort by the six key columns.
ConcatFillSort(e, b, dm) ==
    LET all == e \o b \o dm
        filled == [i \in 1..Len(all) |->
                      [all[i] EXCEPT !.count = FillCount(all[i].count)]]
    IN  Values(StableSort([i \in 1..Len(filled) |->
                              [k |-> MasterKey(filled[i]), v |-> filled[i]]]))

(***************************************************************************)
(* Inputs                                                                  *)
(***************************************************************************)

\* The most wide rows the three input folders hold together.
MaxRows == 3

SeqsUpTo(S, n) == UNION {[1..k -> S] : k \in 0..n}

InputDates == {Date(2023, 1, 15), Date(2023, 1, 20), NaT}

EnrolMeasures ==
    {[age_0_5 |-> Cell(10), age_5_17 |-> Cell(20), age_18_greater |-> Cell(30)],
     [age_0_5 |-> NaN, age_5_17 |-> Cell(2), age_18_greater |-> NaN]}
BioMeasures ==
    {[bio_age_5_17 |-> Cell(5), bio_age_17_ |-> Cell(5)],
     [bio_age_5_17 |-> Cell(0), bio_age_17_ |-> NaN]}
DemoMeasures ==
    {[demo_age_5_17 |-> Cell(1), demo_age_17_ |-> Cell(4)]}

WideRows(dates, districts, measures) ==
    {[date |-> t, state |-> "StateA", district |-> d, pincode |-> 100001, m |-> ms] :
        t \in dates, d \in districts, ms \in measures}

NoTable == <<>>
\* The regression model object before its first fit.
Unfitted == [n |-> 0, total |-> 0]

\* Everything the scripts have not computed yet.
Blank ==
    /\ enrol_df = NoTable /\ bio_df = NoTable /\ demo_df = NoTable
    /\ master = NoTable /\ df = NoTable /\ monthly = NoTable /\ runs = 0
    /\ enrol = NoTable /\ rf = Unfitted /\ future = NoTable
    /\ bootstrap_preds = {} /\ ratio = NoTable /\ stale_regions = NoTable
    /\ asri = NoTable

\* One CSV file per folder, at most MaxRows rows in all.
Init ==
    /\ pc = "start"
    /\ \E ne \in 0..MaxRows :
       \E nb \in 0..(MaxRows - ne) :
       \E nd \in 0..(MaxRows - ne - nb) :
       \E e \in [1..ne -> WideRows(InputDates, {"DistrictX"}, EnrolMeasures)],
          b \in [1..nb -> WideRows(InputDates, {"DistrictX"}, BioMeasures)],
          dm \in [1..nd -> WideRows(InputDates, {"DistrictX"}, DemoMeasures)] :
          enrol_dir = <<e>> /\ bio_dir = <<b>> /\ demo_dir = <<dm>>
    /\ Blank

(***************************************************************************)
(* build_master_dataset, statement by statement                            *)
(***************************************************************************)

\* pd.concat of an empty list of frames raises: a folder holds at least one file.
ProcessEnrolment ==
    /\ pc = "start" /\ Len(enrol_dir) > 0
    /\ enrol_df' = process_enrolment_folder(enrol_dir)
    /\ pc' = "enrol_done"
    /\ UNCHANGED <<enrol_dir, bio_dir, demo_dir, bio_df, demo_df, master, df,
                   monthly, runs, enrol, rf, future, bootstrap_preds, ratio,
                   stale_regions, asri>>

ProcessBiometric ==
    /\ pc = "enrol_done" /\ Len(bio_dir) > 0
    /\ bio_df' = process_biometric_folder(bio_dir)
    /\ pc' = "bio_done"
    /\ UNCHANGED <<enrol_dir, bio_dir, demo_dir, enrol_df, demo_df, master, df,
                   monthly, runs, enrol, rf, future, bootstrap_preds, ratio,
                   stale_regions, asri>>

ProcessDemographic ==
    /\ pc = "bio_done" /\ Len(demo_dir) > 0
    /\ demo_df' = process_demographic_folder(demo_dir)
    /\ pc' = "demo_done"
    /\ UNCHANGED <<enrol_dir, bio_dir, demo_dir, enrol_df, bio_df, master, df,
                   monthly, runs, enrol, rf, future, bootstrap_preds, ratio,
                   stale_regions, asri>>

\* Lines 118-126, then master_df.to_csv(OUTPUT_PATH, index=False).
BuildMaster ==
    /\ pc = "demo_done"
    /\ master' = ConcatFillSort(enrol_df, bio_df, demo_df)
    /\ pc' = "master_written"
    /\ UNCHANGED <<enrol_dir, bio_dir, demo_dir, enrol_df, bio_df, demo_df, df,
                   monthly, runs, enrol, rf, future, bootstrap_preds, ratio,
                   stale_regions, asri>>

NextBuild ==
    \/ ProcessEnrolment
    \/ ProcessBiometric
    \/ ProcessDemographic
    \/ BuildMaster

Spec == Init /\ [][NextBuild]_vars

(***************************************************************************)
(* C1: reshape round trip                                                  *)
(***************************************************************************)

RECURSIVE SumSeq(_)
SumSeq(s) == IF s = <<>> THEN 0 ELSE Head(s) + SumSeq(Tail(s))

IdKey(r) == <<r.date, r.state, r.district, r.pincode>>

\* The wide rows of a folder, as read (all files), whose date parsed.
FolderRows(folder) == SelectSeq(Flatten(folder), DateParsed)

\* Sum of a family's measure columns over the input rows with key k, NaN as 0.
WideSum(folder, cols, k) ==
    LET rows == FolderRows(folder)
    IN  SumSeq([i \in 1..Len(rows) |->
                  IF IdKey(rows[i]) = k
                  THEN SumSeq([j \in 1..Len(cols) |->
                                  IF IsNa(rows[i].m[cols[j]]) THEN 0
                                  ELSE rows[i].m[cols[j]][1]])
                  ELSE 0])

\* Sum of the master counts with key k and source_type st.
LongSum(st, k) ==
    SumSeq([i \in 1..Len(master) |->
              IF IdKey(master[i]) = k /\ master[i].source_type = st
              THEN master[i].count ELSE 0])

FamilyRoundTrip(folder, cols, st) ==
    \A k \in {IdKey(r) : r \in Range(FolderRows(folder))} :
        LongSum(st, k) = WideSum(folder, cols, k)

\* C1: once the master table is built, for every family and every
\* (date, state, district, pincode) key of its input rows, the master counts
\* with that key and source_type sum to the family's wide measure columns
\* summed over the input rows with that key, a missing measure counting as 0.
C1_ReshapeRoundTrip ==
    pc = "master_written" =>
        /\ FamilyRoundTrip(enrol_dir, <<"age_0_5", "age_5_17", "age_18_greater">>,
                           "enrolment")
        /\ FamilyRoundTrip(bio_dir, <<"bio_age_5_17", "bio_age_17_">>, "biometric")
        /\ FamilyRoundTrip(demo_dir, <<"demo_age_5_17", "demo_age_17_">>,
                           "demographic")

\* An enrolment key held by two input rows, one of them with missing measures,
\* beside a biometric row, after the build.
C1_Witness ==
    /\ pc = "master_written"
    /\ \E i, j \in 1..Len(FolderRows(enrol_dir)) :
          /\ i # j
          /\ IdKey(FolderRows(enrol_dir)[i]) = IdKey(FolderRows(enrol_dir)[j])
          /\ IsNa(FolderRows(enrol_dir)[i].m["age_0_5"])
          /\ ~IsNa(FolderRows(enrol_dir)[j].m["age_0_5"])
    /\ Len(FolderRows(bio_dir)) > 0
    /\ LongSum("enrolment", IdKey(FolderRows(enrol_dir)[1])) = 62

(***************************************************************************)
(* uidai_full_ml_pipeline.py, sections 1-2: load and aggregate by month    *)
(***************************************************************************)

\* df["date"].dt.to_period("M").dt.to_timestamp(): first day of the month.
MonthStartKeepDay(t) == t
MonthStart(t) == [y |-> t.y, m |-> t.m, d |-> 1]

WithMonth(r) ==
    [date |-> r.date, state |-> r.state, district |-> r.district,
     pincode |-> r.pincode, age_group |-> r.age_group, count |-> r.count,
     source_type |-> r.source_type, month |-> MonthStart(r.date)]

\* The groupby keys of the monthly aggregation, in the order they are listed.
MonthlyKey(r) ==
    <<DateRank(r.month), StrRank(r.state), StrRank(r.district),
      StrRank(r.source_type), StrRank(r.age_group)>>

RECURSIVE SumGroups(_)
\* ["count"].sum() over rows already arranged group by group: rows of one
\* group are adjacent and are added in their order.
SumGroups(s) ==
    IF s = <<>> THEN <<>>
    ELSE LET rest == SumGroups(Tail(s))
         IN  IF rest # <<>> /\ Head(rest).k = Head(s).k
             THEN <<[k |-> Head(s).k,
                     v |-> [Head(rest).v EXCEPT
                              !.count = Head(s).v.count + Head(rest).v.count]]>>
                  \o Tail(rest)
             ELSE <<s[1]>> \o rest

MonthlyRow(r) ==
    [month |-> r.month, state |-> r.state, district |-> r.district,
     source_type |-> r.source_type, age_group |-> r.age_group, count |-> r.count]

\* df.groupby([month, state, district, source_type, age_group])["count"]
\*   .sum().reset_index(): one row per group, groups in sorted key order.
MonthlyAggregate(d) ==
    LET keyed == [i \in 1..Len(d) |-> [k |-> MonthlyKey(d[i]), v |-> MonthlyRow(d[i])]]
    IN  Values(SumGroups(StableSort(keyed)))

\* The most rows of a master file handed directly to the pipeline script.
MaxFacts == 3

FactRows ==
    {[date |-> t, state |-> "StateA", district |-> "DistrictX", pincode |-> 100001,
      age_group |-> "5_17", count |-> c, source_type |-> st] :
        t \in {Date(2023, 1, 15), Date(2023, 1, 20), Date(2023, 2, 3)},
        c \in {1, 2}, st \in {"enrolment", "biometric"}}

\* The pipeline script started on a master file with any rows in any order.
InitAgg ==
    /\ pc = "master_written"
    /\ enrol_dir = <<>> /\ bio_dir = <<>> /\ demo_dir = <<>>
    /\ enrol_df = NoTable /\ bio_df = NoTable /\ demo_df = NoTable
    /\ master \in SeqsUpTo(FactRows, MaxFacts)
    /\ df = NoTable /\ monthly = NoTable /\ runs = 0
    /\ enrol = NoTable /\ rf = Unfitted /\ future = NoTable
    /\ bootstrap_preds = {} /\ ratio = NoTable /\ stale_regions = NoTable
    /\ asri = NoTable

\* Line 13: pd.read_csv(INPUT_PATH, parse_dates=["date"]).
LoadMaster ==
    /\ pc = "master_written"
    /\ df' = master
    /\ pc' = "loaded"
    /\ UNCHANGED <<enrol_dir, bio_dir, demo_dir, enrol_df, bio_df, demo_df, master,
                   monthly, runs, enrol, rf, future, bootstrap_preds, ratio,
                   stale_regions, asri>>

\* Line 21.
AssignMonth ==
    /\ pc = "loaded"
    /\ df' = [i \in 1..Len(df) |-> WithMonth(df[i])]
    /\ pc' = "month_assigned"
    /\ UNCHANGED <<enrol_dir, bio_dir, demo_dir, enrol_df, bio_df, demo_df, master,
                   monthly, runs, enrol, rf, future, bootstrap_preds, ratio,
                   stale_regions, asri>>

\* Lines 23-35.
Aggregate ==
    /\ pc = "month_assigned"
    /\ monthly' = MonthlyAggregate(df)
    /\ runs' = 1
    /\ pc' = "aggregated"
    /\ UNCHANGED <<enrol_dir, bio_dir, demo_dir, enrol_df, bio_df, demo_df, master,
                   df, enrol, rf, future, bootstrap_preds, ratio,
                   stale_regions, asri>>

\* The aggregation evaluated a second time on the same fact table.
Reaggregate ==
    /\ pc = "aggregated" /\ runs = 1
    /\ monthly' = MonthlyAggregate(df)
    /\ runs' = 2
    /\ UNCHANGED <<pc, enrol_dir, bio_dir, demo_dir, enrol_df, bio_df, demo_df,
                   master, df, enrol, rf, future, bootstrap_preds, ratio,
                   stale_regions, asri>>

NextAgg ==
    \/ LoadMaster
    \/ AssignMonth
    \/ Aggregate
    \/ Reaggregate

SpecAgg == InitAgg /\ [][NextAgg]_vars

(***************************************************************************)
(* C8: monthly aggregation                                                 *)
(***************************************************************************)

\* The bucket of a fact row, from its date.
Bucket(r) ==
    [month |-> Date(r.date.y, r.date.m, 1), state |-> r.state,
     district |-> r.district, source_type |-> r.source_type,
     age_group |-> r.age_group]

RECURSIVE SumOver(_, _)
\* Sum of the counts of the fact rows at the indices I, in no particular order.
SumOver(d, I) ==
    IF I = {} THEN 0
    ELSE LET i == CHOOSE j \in I : TRUE
         IN  d[i].count + SumOver(d, I \ {i})

\* The table the contract describes: one row per bucket with the bucket's total.
BucketTable(d) ==
    {[month |-> b.month, state |-> b.state, district |-> b.district,
      source_type |-> b.source_type, age_group |-> b.age_group,
      count |-> SumOver(d, {i \in 1..Len(d) : Bucket(d[i]) = b})] :
        b \in {Bucket(d[i]) : i \in 1..Len(d)}}

Permuted(d, f) == [i \in 1..Len(d) |-> d[f[i]]]

\* C8: after the aggregation (first or second evaluation) the monthly table has
\* exactly one row per (first-of-month, state, district, source_type, age_group)
\* bucket of the fact rows, holding the sum of all counts of the bucket, and any
\* permutation of the fact rows aggregates to the same set of rows.
C8_MonthlyLossless ==
    pc = "aggregated" =>
        /\ Range(monthly) = BucketTable(df)
        /\ Len(monthly) = Cardinality(BucketTable(df))
        /\ \A f \in Permutations(1..Len(df)) :
              Range(MonthlyAggregate(Permuted(df, f))) = Range(monthly)

\* A second evaluation over three fact rows, two of them in one bucket on
\* different days and not adjacent in the file.
C8_Witness ==
    /\ pc = "aggregated" /\ runs = 2 /\ Len(df) = 3
    /\ Bucket(df[1]) = Bucket(df[3]) /\ df[1].date # df[3].date
    /\ Bucket(df[2]) # Bucket(df[1])
    /\ Len(monthly) = 2

(***************************************************************************)
(* Float columns: exact fractions plus the IEEE specials                   *)
(***************************************************************************)

RECURSIVE Gcd(_, _)
Gcd(a, b) == IF b = 0 THEN a ELSE Gcd(b, a % b)
Abs(x) == IF x < 0 THEN 0 - x ELSE x

FNaN == [kind |-> "nan", n |-> 0, d |-> 1]
FInf == [kind |-> "inf", n |-> 1, d |-> 1]
FNegInf == [kind |-> "ninf", n |-> 0 - 1, d |-> 1]

\* The number n/d (d # 0) in lowest terms with a positive denominator.
Frac(n, d) ==
    LET g == Gcd(Abs(n), Abs(d))
        sg == IF d < 0 THEN 0 - 1 ELSE 1
    IN  [kind |-> "num", n |-> (sg * n) \div g, d |-> (sg * d) \div g]

FInt(i) == Frac(i, 1)
IsNum(x) == x.kind = "num"
IsNaNF(x) == x.kind = "nan"

\* Arithmetic on finite numbers; NaN operands give NaN.  The pipeline applies
\* these only to finite or NaN values (the outlier model rejects infinities).
FAdd(x, y) == IF IsNum(x) /\ IsNum(y) THEN Frac(x.n * y.d + y.n * x.d, x.d * y.d) ELSE FNaN
FSub(x, y) == IF IsNum(x) /\ IsNum(y) THEN Frac(x.n * y.d - y.n * x.d, x.d * y.d) ELSE FNaN
FMul(x, y) == IF IsNum(x) /\ IsNum(y) THEN Frac(x.n * y.n, x.d * y.d) ELSE FNaN

\* True division of floats: x/0 is +-inf for x # 0 and NaN for x = 0.
FDiv(x, y) ==
    IF ~(IsNum(x) /\ IsNum(y)) THEN FNaN
    ELSE IF y.n # 0 THEN Frac(x.n * y.d, x.d * y.n)
    ELSE IF x.n > 0 THEN FInf
    ELSE IF x.n < 0 THEN FNegInf
    ELSE FNaN

\* x < y as IEEE compares: false whenever an operand is NaN.
FLess(x, y) ==
    CASE IsNaNF(x) \/ IsNaNF(y) -> FALSE
      [] x.kind = "inf" -> FALSE
      [] x.kind = "ninf" -> y.kind # "ninf"
      [] y.kind = "inf" -> TRUE
      [] y.kind = "ninf" -> FALSE
      [] OTHER -> x.n * y.d < y.n * x.d

\* Series.fillna(0) on one float.
FFillNa(x) == IF IsNaNF(x) THEN FInt(0) ELSE x

\* An integer cell after index alignment (missing label -> NaN) as a float.
CellToF(c) == IF IsNa(c) THEN FNaN ELSE FInt(c[1])

(***************************************************************************)
(* Sections 3-5: features, forecast, bootstrap confidence intervals        *)
(***************************************************************************)

IsEnrolment(r) == r.source_type = "enrolment"
IsUpdate(r) == r.source_type \in {"biometric", "demographic"}

\* enrol (line 55) and enrol_m (line 127); updates_m (line 128).
EnrolM(m) == SelectSeq(m, IsEnrolment)
UpdatesM(m) == SelectSeq(m, IsUpdate)

RECURSIVE Dedup(_)
\* A sorted sequence of keyed entries with repeated keys removed.
Dedup(s) ==
    IF Len(s) <= 1 THEN s
    ELSE IF s[1].k = s[2].k THEN Dedup(Tail(s))
    ELSE <<s[1]>> \o Dedup(Tail(s))

\* LabelEncoder.fit_transform: the position (from 0) of a label among the
\* sorted distinct labels of the column.
Classes(col) ==
    Dedup(StableSort([i \in 1..Len(col) |-> [k |-> <<StrRank(col[i])>>, v |-> col[i]]]))
LabelCode(col, x) ==
    (CHOOSE i \in 1..Len(Classes(col)) : Classes(col)[i].v = x) - 1

\* Lines 42-49.
WithFeatures(m) ==
    LET states == [i \in 1..Len(m) |-> m[i].state]
        districts == [i \in 1..Len(m) |-> m[i].district]
    IN  [i \in 1..Len(m) |->
            [month |-> m[i].month, state |-> m[i].state, district |-> m[i].district,
             source_type |-> m[i].source_type, age_group |-> m[i].age_group,
             count |-> m[i].count,
             month_num |-> m[i].month.m, year |-> m[i].month.y,
             state_code |-> LabelCode(states, m[i].state),
             district_code |-> LabelCode(districts, m[i].district)]]

\* RandomForestRegressor is library code.  A fitted model is represented by
\* what it was fitted on (number of training rows and the sum of their
\* targets), and its prediction for any feature row by the mean training target.
Fit(train) ==
    [n |-> Len(train), total |-> SumSeq([i \in 1..Len(train) |-> train[i].count])]
Predict(model, rows) == [i \in 1..Len(rows) |-> Frac(model.total, model.n)]

GroupOf(r) == <<r.state, r.district, r.state_code, r.district_code>>

\* enrol.groupby([...]).tail(1): the last row of every group, in table order.
TailOne(t) ==
    LET last(i) == \A j \in (i + 1)..Len(t) : GroupOf(t[j]) # GroupOf(t[i])
        RECURSIVE pick(_)
        pick(i) == IF i > Len(t) THEN <<>>
                   ELSE (IF last(i) THEN <<t[i]>> ELSE <<>>) \o pick(i + 1)
    IN  pick(1)

\* month + pd.DateOffset(months=i) on a first-of-month timestamp.
AddMonths(t, i) ==
    [y |-> t.y + ((t.m - 1 + i) \div 12), m |-> ((t.m - 1 + i) % 12) + 1, d |-> t.d]

Shifted(t, i) == [j \in 1..Len(t) |-> [t[j] EXCEPT !.month = AddMonths(t[j].month, i)]]

\* Lines 75-91: the seed rows, six copies of them (line 79), then one shifted
\* copy of that frame for each of the offsets 1..6, and the calendar features.
FutureFrame(e) ==
    LET seed == TailOne(e)
        six == Flatten([c \in 1..6 |-> seed])
        all == Flatten([i \in 1..6 |-> Shifted(six, i)])
    IN  [j \in 1..Len(all) |->
            [all[j] EXCEPT !.month_num = all[j].month.m, !.year = all[j].month.y]]

\* Number of bootstrap iterations (line 103).
N_BOOT == 50

\* frac=0.8 of the rows, rounded half to even as Python's round does.
SampleSize(n) ==
    LET q == (8 * n) \div 10
        r == (8 * n) % 10
    IN  IF r > 5 \/ (r = 5 /\ q % 2 = 1) THEN q + 1 ELSE q

\* enrol.sample(frac=0.8, replace=True): any rows, repeats allowed.
Samples(e) == [1..SampleSize(Len(e)) -> 1..Len(e)]

\* bootstrap_preds is kept as a bag of prediction vectors: np.percentile along
\* axis 0 does not depend on the order of the iterations.
BagSize(b) ==
    LET RECURSIVE cnt(_)
        cnt(S) == IF S = {} THEN 0
                  ELSE LET x == CHOOSE y \in S : TRUE IN x.times + cnt(S \ {x})
    IN  cnt(b)
BagAdd(b, v) ==
    IF \E x \in b : x.pred = v
    THEN {IF x.pred = v THEN [pred |-> v, times |-> x.times + 1] ELSE x : x \in b}
    ELSE b \cup {[pred |-> v, times |-> 1]}

RECURSIVE Repeat(_, _)
Repeat(x, k) == IF k = 0 THEN <<>> ELSE <<x>> \o Repeat(x, k - 1)

\* Column j of the bootstrap matrix, sorted ascending.
SortedColumn(b, j) ==
    LET RECURSIVE col(_)
        col(S) == IF S = {} THEN <<>>
                  ELSE LET x == CHOOSE y \in S :
                                   \A z \in S : ~FLess(z.pred[j], y.pred[j])
                       IN  Repeat(x.pred[j], x.times) \o col(S \ {x})
    IN  col(b)

\* np.percentile(a, q) with linear interpolation on a sorted column.
Percentile(sorted, q) ==
    LET pos == q * (Len(sorted) - 1)
        lo == pos \div 100
        hi == IF lo + 1 < Len(sorted) THEN lo + 1 ELSE lo
    IN  FAdd(sorted[lo + 1],
             FMul(Frac(pos % 100, 100), FSub(sorted[hi + 1], sorted[lo + 1])))

\* Lines 42-49.
FeatureEngineering ==
    /\ pc = "aggregated"
    /\ monthly' = WithFeatures(monthly)
    /\ pc' = "features"
    /\ UNCHANGED <<enrol_dir, bio_dir, demo_dir, enrol_df, bio_df, demo_df, master,
                   df, runs, enrol, rf, future, bootstrap_preds, ratio,
                   stale_regions, asri>>

\* Lines 55-72: the enrolment rows and the fit on all of them.
FitFull ==
    /\ pc = "features" /\ Len(EnrolM(monthly)) > 0
    /\ enrol' = EnrolM(monthly)
    /\ rf' = Fit(enrol')
    /\ pc' = "fitted"
    /\ UNCHANGED <<enrol_dir, bio_dir, demo_dir, enrol_df, bio_df, demo_df, master,
                   df, monthly, runs, future, bootstrap_preds, ratio,
                   stale_regions, asri>>

\* rf.fit raises ValueError on a training table without rows.
FitRaises ==
    /\ pc = "features" /\ Len(EnrolM(monthly)) = 0
    /\ enrol' = EnrolM(monthly)
    /\ pc' = "crashed"
    /\ UNCHANGED <<enrol_dir, bio_dir, demo_dir, enrol_df, bio_df, demo_df, master,
                   df, monthly, runs, rf, future, bootstrap_preds, ratio,
                   stale_regions, asri>>

\* Lines 75-91.
BuildFuture ==
    /\ pc = "fitted"
    /\ future' = FutureFrame(enrol)
    /\ pc' = "future_built"
    /\ UNCHANGED <<enrol_dir, bio_dir, demo_dir, enrol_df, bio_df, demo_df, master,
                   df, monthly, runs, enrol, rf, bootstrap_preds, ratio,
                   stale_regions, asri>>

WithColumn(t, name, col) == [j \in 1..Len(t) |-> (name :> col[j]) @@ t[j]]

\* Lines 93-95.
PredictPoint ==
    /\ pc = "future_built"
    /\ future' = WithColumn(future, "predicted_enrolment", Predict(rf, future))
    /\ pc' = "predicted"
    /\ UNCHANGED <<enrol_dir, bio_dir, demo_dir, enrol_df, bio_df, demo_df, master,
                   df, monthly, runs, enrol, rf, bootstrap_preds, ratio,
                   stale_regions, asri>>

\* A variant of the loop body that prints the refitted model's prediction into
\* the point-estimate column.
BootstrapIterOverwriting ==
    /\ pc = "predicted" /\ BagSize(bootstrap_preds) < N_BOOT
    /\ \E s \in Samples(enrol) :
          /\ rf' = Fit([i \in 1..Len(s) |-> enrol[s[i]]])
          /\ bootstrap_preds' = BagAdd(bootstrap_preds, Predict(rf', future))
          /\ future' = [j \in 1..Len(future) |->
                          [future[j] EXCEPT
                             !.predicted_enrolment = Predict(rf', future)[j]]]
    /\ UNCHANGED <<pc, enrol_dir, bio_dir, demo_dir, enrol_df, bio_df, demo_df, master,
                   df, monthly, runs, enrol, ratio, stale_regions, asri>>

\* Lines 103-113: one pass of the loop body.
BootstrapIter ==
    /\ pc = "predicted" /\ BagSize(bootstrap_preds) < N_BOOT
    /\ \E s \in Samples(enrol) :
          /\ rf' = Fit([i \in 1..Len(s) |-> enrol[s[i]]])
          /\ bootstrap_preds' = BagAdd(bootstrap_preds, Predict(rf', future))
    /\ UNCHANGED <<pc, enrol_dir, bio_dir, demo_dir, enrol_df, bio_df, demo_df, master,
                   df, monthly, runs, enrol, future, ratio, stale_regions, asri>>

\* Lines 115-120.
ConfidenceIntervals ==
    /\ pc = "predicted" /\ BagSize(bootstrap_preds) = N_BOOT
    /\ future' =
          WithColumn(
            WithColumn(future, "lower_ci",
                       [j \in 1..Len(future) |->
                           Percentile(SortedColumn(bootstrap_preds, j), 10)]),
            "upper_ci",
            [j \in 1..Len(future) |-> Percentile(SortedColumn(bootstrap_preds, j), 90)])
    /\ pc' = "forecast_done"
    /\ UNCHANGED <<enrol_dir, bio_dir, demo_dir, enrol_df, bio_df, demo_df, master,
                   df, monthly, runs, enrol, rf, bootstrap_preds, ratio,
                   stale_regions, asri>>

\* The master files the forecast is explored on: a biometric row, and any of
\* three enrolment rows (two months of DistrictX, one of DistrictY).
ForecastSlots ==
    <<[district |-> "DistrictX", source_type |-> "enrolment",
       date |-> Date(2023, 11, 15), count |-> 1],
      [district |-> "DistrictY", source_type |-> "enrolment",
       date |-> Date(2023, 8, 3), count |-> 1],
      [district |-> "DistrictX", source_type |-> "enrolment",
       date |-> Date(2023, 12, 20), count |-> 3],
      [district |-> "DistrictY", source_type |-> "biometric",
       date |-> Date(2023, 8, 5), count |-> 2]>>

ForecastPicks ==
    {pick \in [1..4 -> BOOLEAN] : pick[4] /\ ~(pick[2] /\ pick[3])}

RECURSIVE ChosenFacts(_, _)
ChosenFacts(pick, i) ==
    IF i > Len(ForecastSlots) THEN <<>>
    ELSE (IF pick[i]
          THEN <<[date |-> ForecastSlots[i].date, state |-> "StateA",
                  district |-> ForecastSlots[i].district, pincode |-> 100001,
                  age_group |-> "5_17", count |-> ForecastSlots[i].count,
                  source_type |-> ForecastSlots[i].source_type]>>
          ELSE <<>>) \o ChosenFacts(pick, i + 1)

InitForecast ==
    /\ pc = "master_written"
    /\ enrol_dir = <<>> /\ bio_dir = <<>> /\ demo_dir = <<>>
    /\ enrol_df = NoTable /\ bio_df = NoTable /\ demo_df = NoTable
    /\ \E pick \in ForecastPicks : master = ChosenFacts(pick, 1)
    /\ df = NoTable /\ monthly = NoTable /\ runs = 0
    /\ enrol = NoTable /\ rf = Unfitted /\ future = NoTable
    /\ bootstrap_preds = {} /\ ratio = NoTable /\ stale_regions = NoTable
    /\ asri = NoTable

NextForecast ==
    \/ LoadMaster
    \/ AssignMonth
    \/ Aggregate
    \/ FeatureEngineering
    \/ FitFull
    \/ FitRaises
    \/ BuildFuture
    \/ PredictPoint
    \/ BootstrapIter
    \/ ConfidenceIntervals

SpecForecast == InitForecast /\ [][NextForecast]_vars

(***************************************************************************)
(* C2, C10: the forecast                                                   *)
(***************************************************************************)

\* The (state, district) pairs with enrolment history and a pair's last month.
EnrolPairs == {<<enrol[i].state, enrol[i].district>> : i \in 1..Len(enrol)}
SeedMonth(p) ==
    LET ms == {enrol[i].month : i \in {j \in 1..Len(enrol) :
                                          <<enrol[j].state, enrol[j].district>> = p}}
    IN  CHOOSE t \in ms : \A u \in ms : DateRank(u) <= DateRank(t)
MonthIndex(t) == t.y * 12 + (t.m - 1)
FutureRowsOf(p) == {j \in 1..Len(future) : <<future[j].state, future[j].district>> = p}

\* C2: once the forecast frame is built it holds, for every (state, district)
\* pair with enrolment history, exactly one row for each of the six months
\* after the pair's last observed month, six rows per pair in all, so no two
\* rows share (state, district, month).
C2_SixRowsPerPair ==
    pc \in {"future_built", "predicted", "forecast_done"} =>
        \A p \in EnrolPairs :
            /\ Cardinality(FutureRowsOf(p)) = 6
            /\ \A i \in 1..6 :
                  Cardinality({j \in FutureRowsOf(p) :
                                  /\ future[j].month.d = 1
                                  /\ MonthIndex(future[j].month)
                                       = MonthIndex(SeedMonth(p)) + i}) = 1

\* C10: the point estimate is taken from the model fitted on the full
\* enrolment history, before any bootstrap refit of the same model object, and
\* stays that value through and after the bootstrap loop.
C10_PointEstimateFromFullFit ==
    /\ pc = "future_built" => rf = Fit(enrol) /\ bootstrap_preds = {}
    /\ bootstrap_preds # {} => pc \in {"predicted", "forecast_done"}
    /\ pc \in {"predicted", "forecast_done"} =>
          \A j \in 1..Len(future) :
              future[j].predicted_enrolment = Predict(Fit(enrol), future)[j]

\* All fifty refits done, the model object left fitted on a bootstrap sample
\* that predicts something else than the full fit, the bounds written.
C10_Witness ==
    /\ pc = "forecast_done" /\ BagSize(bootstrap_preds) = 50
    /\ rf # Fit(enrol)
    /\ Predict(rf, future)[1] # future[1].predicted_enrolment
    /\ FLess(future[1].lower_ci, future[1].upper_ci)

(***************************************************************************)
(* Section 6: staleness detection                                          *)
(***************************************************************************)

\* t.groupby(["district", "month"])["count"].sum(): keyed, sorted, summed.
SumByDistrictMonth(t) ==
    SumGroups(StableSort([i \in 1..Len(t) |->
        [k |-> <<StrRank(t[i].district), DateRank(t[i].month)>>,
         v |-> [district |-> t[i].district, month |-> t[i].month,
                count |-> t[i].count]]]))

\* t.groupby("district")["count"].sum()
SumByDistrict(t) ==
    SumGroups(StableSort([i \in 1..Len(t) |->
        [k |-> <<StrRank(t[i].district)>>,
         v |-> [district |-> t[i].district, count |-> t[i].count]]]))

HasKey(g, k) == \E i \in 1..Len(g) : g[i].k = k
\* The value of a grouped series at label k; NaN when the label is absent.
At(g, k) ==
    IF HasKey(g, k) THEN Cell(g[CHOOSE i \in 1..Len(g) : g[i].k = k].v.count)
    ELSE NaN
RECURSIVE Without(_, _)
\* The elements of b whose key is not a key of a.
Without(b, a) ==
    IF b = <<>> THEN <<>>
    ELSE (IF HasKey(a, Head(b).k) THEN <<>> ELSE <<Head(b)>>) \o Without(Tail(b), a)

\* The index of a binary operation on two series: the sorted union of labels.
UnionIndex(a, b) == StableSort(a \o Without(b, a))

\* updates / enrolment, label by label, then reset_index(name="update_ratio").
\* A label missing on either side gives NaN.
RatioOf(u, e) == FDiv(CellToF(u), CellToF(e))

RatioTable(m) ==
    LET u == SumByDistrictMonth(UpdatesM(m))
        e == SumByDistrictMonth(EnrolM(m))
        idx == UnionIndex(u, e)
    IN  [i \in 1..Len(idx) |->
            [district |-> idx[i].v.district, month |-> idx[i].v.month,
             update_ratio |-> RatioOf(At(u, idx[i].k), At(e, idx[i].k))]]

\* ratio["update_ratio"].fillna(0)
FillRatio(t) ==
    [i \in 1..Len(t) |-> [t[i] EXCEPT !.update_ratio = FFillNa(t[i].update_ratio)]]

\* Lines 141-143: the row mask of stale_regions.
IsStaleBoth(r) == FLess(r.update_ratio, Frac(15, 100)) /\ r.anomaly = 0 - 1
IsStale(r) == FLess(r.update_ratio, Frac(15, 100)) \/ r.anomaly = 0 - 1

\* Lines 127-136.
ComputeRatio ==
    /\ pc = "forecast_done"
    /\ ratio' = FillRatio(RatioTable(monthly))
    /\ pc' = "ratio_done"
    /\ UNCHANGED <<enrol_dir, bio_dir, demo_dir, enrol_df, bio_df, demo_df, master,
                   df, monthly, runs, enrol, rf, future, bootstrap_preds,
                   stale_regions, asri>>

Finite(t) == \A i \in 1..Len(t) : IsNum(t[i].update_ratio)

\* Lines 138-139.  IsolationForest.fit_predict labels every row -1 or 1; which
\* rows it calls outliers is left open, equal ratios get equal labels.
IsoFitPredict ==
    /\ pc = "ratio_done" /\ Len(ratio) > 0 /\ Finite(ratio)
    /\ \E label \in [{ratio[i].update_ratio : i \in 1..Len(ratio)} -> {0 - 1, 1}] :
          ratio' = [i \in 1..Len(ratio) |->
                      [district |-> ratio[i].district, month |-> ratio[i].month,
                       update_ratio |-> ratio[i].update_ratio,
                       anomaly |-> label[ratio[i].update_ratio]]]
    /\ pc' = "iso_done"
    /\ UNCHANGED <<enrol_dir, bio_dir, demo_dir, enrol_df, bio_df, demo_df, master,
                   df, monthly, runs, enrol, rf, future, bootstrap_preds,
                   stale_regions, asri>>

\* fit_predict validates its input and raises ValueError on an empty table or
\* on an infinite value: the script stops there.
IsoRaises ==
    /\ pc = "ratio_done" /\ (Len(ratio) = 0 \/ ~Finite(ratio))
    /\ pc' = "crashed"
    /\ UNCHANGED <<enrol_dir, bio_dir, demo_dir, enrol_df, bio_df, demo_df, master,
                   df, monthly, runs, enrol, rf, future, bootstrap_preds, ratio,
                   stale_regions, asri>>

\* Lines 141-145.
FlagStale ==
    /\ pc = "iso_done"
    /\ stale_regions' = SelectSeq(ratio, IsStale)
    /\ pc' = "stale_done"
    /\ UNCHANGED <<enrol_dir, bio_dir, demo_dir, enrol_df, bio_df, demo_df, master,
                   df, monthly, runs, enrol, rf, future, bootstrap_preds, ratio,
                   asri>>

(***************************************************************************)
(* Section 7: ASRI                                                         *)
(***************************************************************************)

RECURSIVE FSum(_)
FSum(s) == IF s = <<>> THEN FInt(0) ELSE FAdd(Head(s), FSum(Tail(s)))

\* Series.mean(): NaN for an empty series.
FMean(s) == IF s = <<>> THEN FNaN ELSE FDiv(FSum(s), FInt(Len(s)))

RECURSIVE MeanGroups(_)
\* ["update_ratio"].mean() over rows arranged group by group: each group's
\* values are collected, then averaged.
MeanGroups(s) ==
    IF s = <<>> THEN <<>>
    ELSE LET rest == MeanGroups(Tail(s))
         IN  IF rest # <<>> /\ Head(rest).k = Head(s).k
             THEN <<[k |-> Head(s).k, district |-> Head(s).district,
                     xs |-> <<Head(s).x>> \o Head(rest).xs]>> \o Tail(rest)
             ELSE <<[k |-> Head(s).k, district |-> Head(s).district,
                     xs |-> <<Head(s).x>>]>> \o rest

\* stale_regions.groupby("district")["update_ratio"].mean().fillna(0):
\* one entry per district that has a flagged row.
StalePenalty(stale) ==
    LET g == MeanGroups(StableSort([i \in 1..Len(stale) |->
                 [k |-> <<StrRank(stale[i].district)>>, district |-> stale[i].district,
                  x |-> stale[i].update_ratio]]))
    IN  [i \in 1..Len(g) |->
            [k |-> g[i].k, v |-> [district |-> g[i].district,
                                  x |-> FFillNa(FMean(g[i].xs))]]]

\* A float series entry per district from an integer one.
AsFloatSeries(g) ==
    [i \in 1..Len(g) |->
        [k |-> g[i].k, v |-> [district |-> g[i].v.district, x |-> FInt(g[i].v.count)]]]

\* The value of a float series at label k; NaN when the label is absent.
FAt(g, k) == IF HasKey(g, k) THEN g[CHOOSE i \in 1..Len(g) : g[i].k = k].v.x ELSE FNaN

\* Lines 152-160: the raw index, one entry per label of any of the three
\* series; a label absent from one of them gives NaN.
AsriRaw(m, stale) ==
    LET enrol_score == AsFloatSeries(SumByDistrict(EnrolM(m)))
        update_score == AsFloatSeries(SumByDistrict(UpdatesM(m)))
        stale_penalty == StalePenalty(stale)
        mean_enrol == FMean([i \in 1..Len(enrol_score) |-> enrol_score[i].v.x])
        idx == UnionIndex(UnionIndex(enrol_score, update_score), stale_penalty)
    IN  [i \in 1..Len(idx) |->
            [district |-> idx[i].v.district,
             score |->
                FSub(FAdd(FMul(Frac(4, 10), FAt(enrol_score, idx[i].k)),
                          FMul(Frac(4, 10), FAt(update_score, idx[i].k))),
                     FMul(FMul(Frac(2, 10), FAt(stale_penalty, idx[i].k)),
                          mean_enrol))]]

IsDefined(r) == IsNum(r.score)
\* Series.min() / max(): NaN entries are skipped; NaN when nothing is left.
SeriesMin(t) ==
    LET xs == SelectSeq(t, IsDefined)
    IN  IF xs = <<>> THEN FNaN
        ELSE xs[CHOOSE i \in 1..Len(xs) :
                   \A j \in 1..Len(xs) : ~FLess(xs[j].score, xs[i].score)].score
SeriesMax(t) ==
    LET xs == SelectSeq(t, IsDefined)
    IN  IF xs = <<>> THEN FNaN
        ELSE xs[CHOOSE i \in 1..Len(xs) :
                   \A j \in 1..Len(xs) : ~FLess(xs[i].score, xs[j].score)].score

\* Lines 162-165.
MinMaxScale(t) ==
    [i \in 1..Len(t) |->
        [t[i] EXCEPT !.score =
            FMul(FDiv(FSub(t[i].score, SeriesMin(t)),
                      FSub(SeriesMax(t), SeriesMin(t))),
                 FInt(100))]]

\* x goes before y in a descending sort with NaN last.
Before(x, y) == IsNum(x.score) /\ (IsNaNF(y.score) \/ FLess(y.score, x.score))

RECURSIVE InsertDesc(_, _)
InsertDesc(s, x) ==
    IF s = <<>> THEN <<x>>
    ELSE IF Before(x, Head(s)) THEN <<x>> \o s
    ELSE <<Head(s)>> \o InsertDesc(Tail(s), x)

RECURSIVE SortDesc(_)
\* asri.sort_values(ascending=False)
SortDesc(t) ==
    IF t = <<>> THEN <<>>
    ELSE InsertDesc(SortDesc(SubSeq(t, 1, Len(t) - 1)), t[Len(t)])

\* Lines 152-160.
ComputeAsri ==
    /\ pc = "stale_done"
    /\ asri' = AsriRaw(monthly, stale_regions)
    /\ pc' = "asri_raw"
    /\ UNCHANGED <<enrol_dir, bio_dir, demo_dir, enrol_df, bio_df, demo_df, master,
                   df, monthly, runs, enrol, rf, future, bootstrap_preds, ratio,
                   stale_regions>>

\* Lines 162-169.
NormaliseAsri ==
    /\ pc = "asri_raw"
    /\ asri' = SortDesc(MinMaxScale(asri))
    /\ pc' = "asri_done"
    /\ UNCHANGED <<enrol_dir, bio_dir, demo_dir, enrol_df, bio_df, demo_df, master,
                   df, monthly, runs, enrol, rf, future, bootstrap_preds, ratio,
                   stale_regions>>

(***************************************************************************)
(* The whole run: build script, then the pipeline script                   *)
(***************************************************************************)

\* Sections 3-5 in one step.  They write the feature columns of monthly,
\* enrol, rf, future and bootstrap_preds, none of which sections 6-7 read
\* (SpecForecast takes these sections statement by statement); they get past
\* rf.fit only with at least one enrolment row.
ForecastSection ==
    /\ pc = "aggregated" /\ Len(EnrolM(monthly)) > 0
    /\ pc' = "forecast_done"
    /\ UNCHANGED <<enrol_dir, bio_dir, demo_dir, enrol_df, bio_df, demo_df, master,
                   df, monthly, runs, enrol, rf, future, bootstrap_preds, ratio,
                   stale_regions, asri>>

ForecastRaises ==
    /\ pc = "aggregated" /\ Len(EnrolM(monthly)) = 0
    /\ pc' = "crashed"
    /\ UNCHANGED <<enrol_dir, bio_dir, demo_dir, enrol_df, bio_df, demo_df, master,
                   df, monthly, runs, enrol, rf, future, bootstrap_preds, ratio,
                   stale_regions, asri>>

E3(a, b, c) == [age_0_5 |-> a, age_5_17 |-> b, age_18_greater |-> c]
B2(a, b) == [bio_age_5_17 |-> a, bio_age_17_ |-> b]
D2(a, b) == [demo_age_5_17 |-> a, demo_age_17_ |-> b]

\* The input rows a run may hold: each slot is one possible row of one family's
\* file, absent or present with one of its measure vectors.
StaleSlots ==
    <<[fam |-> "enrolment", district |-> "DistrictX", date |-> Date(2023, 1, 15),
       opts |-> <<E3(Cell(0), Cell(0), Cell(0)), E3(NaN, Cell(5), NaN),
                  E3(Cell(10), Cell(20), Cell(30))>>],
      [fam |-> "enrolment", district |-> "DistrictY", date |-> Date(2023, 1, 15),
       opts |-> <<E3(NaN, Cell(5), NaN), E3(Cell(10), Cell(20), Cell(30))>>],
      [fam |-> "enrolment", district |-> "DistrictZ", date |-> Date(2023, 1, 15),
       opts |-> <<E3(Cell(10), Cell(20), Cell(30))>>],
      [fam |-> "biometric", district |-> "DistrictX", date |-> Date(2023, 1, 20),
       opts |-> <<B2(Cell(5), Cell(5)), B2(Cell(1), NaN)>>],
      [fam |-> "biometric", district |-> "DistrictX", date |-> Date(2023, 2, 3),
       opts |-> <<B2(Cell(1), NaN)>>],
      [fam |-> "biometric", district |-> "DistrictY", date |-> Date(2023, 1, 20),
       opts |-> <<B2(Cell(5), Cell(5)), B2(Cell(1), NaN)>>],
      [fam |-> "demographic", district |-> "DistrictX", date |-> Date(2023, 1, 20),
       opts |-> <<D2(Cell(0), Cell(0))>>]>>

\* The same slots with measure vectors that hold negative numbers.
SignedSlots ==
    [i \in 1..Len(StaleSlots) |->
        IF i = 1
        THEN [StaleSlots[i] EXCEPT
                !.opts = Append(@, E3(Cell(0 - 3), NaN, Cell(1)))]
        ELSE IF i = 4
        THEN [StaleSlots[i] EXCEPT !.opts = Append(@, B2(Cell(0 - 1), Cell(0)))]
        ELSE StaleSlots[i]]

\* pick[i] = 0: slot i absent; pick[i] = k: present with its k-th vector.
Picks(slots) ==
    {pick \in [1..Len(slots) -> 0..4] : \A i \in 1..Len(slots) : pick[i] <= Len(slots[i].opts)}

RECURSIVE FileOf(_, _, _, _)
\* The rows of one family's file under a pick, in slot order.
FileOf(slots, pick, fam, i) ==
    IF i > Len(slots) THEN <<>>
    ELSE (IF slots[i].fam = fam /\ pick[i] > 0
          THEN <<[date |-> slots[i].date, state |-> "StateA",
                  district |-> slots[i].district, pincode |-> 100001,
                  m |-> slots[i].opts[pick[i]]]>>
          ELSE <<>>) \o FileOf(slots, pick, fam, i + 1)

InitFrom(slots) ==
    /\ pc = "start"
    /\ \E pick \in Picks(slots) :
          /\ enrol_dir = <<FileOf(slots, pick, "enrolment", 1)>>
          /\ bio_dir = <<FileOf(slots, pick, "biometric", 1)>>
          /\ demo_dir = <<FileOf(slots, pick, "demographic", 1)>>
    /\ Blank

InitStale == InitFrom(StaleSlots)
InitSigned == InitFrom(SignedSlots)

NextStale ==
    \/ ProcessEnrolment
    \/ ProcessBiometric
    \/ ProcessDemographic
    \/ BuildMaster
    \/ LoadMaster
    \/ AssignMonth
    \/ Aggregate
    \/ ForecastSection
    \/ ForecastRaises
    \/ ComputeRatio
    \/ IsoFitPredict
    \/ IsoRaises
    \/ FlagStale
    \/ ComputeAsri
    \/ NormaliseAsri

\* Runs on inputs without negative measures, and on inputs with them.
SpecStale == InitStale /\ [][NextStale]_vars
SpecSigned == InitSigned /\ [][NextStale]_vars

(***************************************************************************)
(* C4, C5, C7: the update ratio and the staleness flag                     *)
(***************************************************************************)

AfterRatio == {"ratio_done", "iso_done", "stale_done", "asri_raw", "asri_done", "crashed"}
AfterStale == {"stale_done", "asri_raw", "asri_done"}

\* The enrolment rows of the monthly table for one district and month.
EnrolRowsOf(d, t) ==
    {i \in 1..Len(monthly) : /\ monthly[i].source_type = "enrolment"
                             /\ monthly[i].district = d /\ monthly[i].month = t}
UpdateRowsOf(d, t) ==
    {i \in 1..Len(monthly) : /\ monthly[i].source_type # "enrolment"
                             /\ monthly[i].district = d /\ monthly[i].month = t}

\* C4: a row of the ratio table is in the stale-region table exactly when its
\* update_ratio is below 0.15 or its anomaly label is -1, and the stale-region
\* table holds nothing else and no row twice.
C4_UnionSemantics ==
    pc \in AfterStale =>
        /\ \A i \in 1..Len(ratio) :
              (\E j \in 1..Len(stale_regions) : stale_regions[j] = ratio[i])
              <=> \/ 100 * ratio[i].update_ratio.n < 15 * ratio[i].update_ratio.d
                  \/ ratio[i].anomaly = 0 - 1
        /\ \A j \in 1..Len(stale_regions) : stale_regions[j] \in Range(ratio)
        /\ Cardinality(Range(stale_regions)) = Len(stale_regions)

\* A row with ratio 0.20 labelled an outlier is flagged, and a row with ratio
\* at least 0.15 labelled normal is not.
C4_Witness ==
    /\ pc = "stale_done"
    /\ \E j \in 1..Len(stale_regions) :
          /\ stale_regions[j].update_ratio = Frac(1, 5)
          /\ stale_regions[j].anomaly = 0 - 1
    /\ \E i \in 1..Len(ratio) :
          /\ ~FLess(ratio[i].update_ratio, Frac(15, 100))
          /\ ratio[i].anomaly = 1
          /\ ratio[i] \notin Range(stale_regions)

\* C5: in the ratio table every (district, month) whose enrolment sum is zero,
\* or that has no enrolment rows, has update_ratio exactly 0, and no row holds
\* an infinite or undefined ratio.
C5_ZeroDenominatorGivesZero ==
    pc \in AfterRatio =>
        \A i \in 1..Len(ratio) :
            /\ IsNum(ratio[i].update_ratio)
            /\ SumOver(monthly, EnrolRowsOf(ratio[i].district, ratio[i].month)) = 0
                  => ratio[i].update_ratio = FInt(0)

\* x >= 0 as IEEE compares (true of +inf, false of NaN).
GeZero(x) == x.kind = "inf" \/ (x.kind = "num" /\ x.n >= 0)

CountsNonNegative ==
    /\ \A i \in 1..Len(master) : master[i].count >= 0
    /\ \A i \in 1..Len(monthly) : monthly[i].count >= 0
RatiosNonNegative ==
    /\ \A i \in 1..Len(ratio) : GeZero(ratio[i].update_ratio)
    /\ \A i \in 1..Len(stale_regions) : GeZero(stale_regions[i].update_ratio)

\* C7 as stated: whatever the input, every count of the master and monthly
\* tables and every update_ratio of the ratio and stale-region tables is >= 0.
C7_NonNegativeForEveryInput == CountsNonNegative /\ RatiosNonNegative

InputCells ==
    {r.m[c] : r \in Range(Flatten(enrol_dir)), c \in Range(EnrolVars)}
    \cup {r.m[c] : r \in Range(Flatten(bio_dir)), c \in Range(BioVars)}
    \cup {r.m[c] : r \in Range(Flatten(demo_dir)), c \in Range(DemoVars)}
InputsNonNegative == \A c \in InputCells : IsNa(c) \/ c[1] >= 0

\* C7 amended: when no input measure is negative (missing ones allowed), every
\* count of the master and monthly tables and every update_ratio of the ratio
\* and stale-region tables is >= 0.
C7_NonNegativeForNonNegativeInput ==
    InputsNonNegative => CountsNonNegative /\ RatiosNonNegative

\* Non-negative input with a missing measure, flagged rows present, one of them
\* a ratio filled with 0 and another a positive ratio.
C7_Witness ==
    /\ pc = "stale_done" /\ InputsNonNegative
    /\ \E c \in InputCells : IsNa(c)
    /\ \E i \in 1..Len(master) : master[i].count = 0
    /\ \E j \in 1..Len(stale_regions) :
          /\ stale_regions[j].update_ratio = FInt(0)
          /\ EnrolRowsOf(stale_regions[j].district, stale_regions[j].month) = {}
    /\ \E j \in 1..Len(ratio) : FLess(FInt(0), ratio[j].update_ratio)

(***************************************************************************)
(* C3, C6, C9: the readiness index                                         *)
(***************************************************************************)

\* The raw index of lines 152-160 for the tables of the current state.
Raw == AsriRaw(monthly, stale_regions)
DefinedRaw == {i \in 1..Len(Raw) : IsNum(Raw[i].score)}
ScoreOf(d) == asri[CHOOSE k \in 1..Len(asri) : asri[k].district = d].score
InRange(x) == IsNum(x) /\ 0 <= x.n /\ x.n <= 100 * x.d

\* C3: when at least two districts have different raw scores, every district's
\* readiness score is a number in [0,100], a district with the largest raw
\* score has 100 and one with the smallest raw score has 0.
C3_ScoresBounded ==
    (pc = "asri_done" /\ \E i, j \in DefinedRaw : Raw[i].score # Raw[j].score) =>
        /\ \A k \in 1..Len(asri) : InRange(asri[k].score)
        /\ \A i \in DefinedRaw :
              /\ (\A j \in DefinedRaw : ~FLess(Raw[i].score, Raw[j].score))
                    => ScoreOf(Raw[i].district) = FInt(100)
              /\ (\A j \in DefinedRaw : ~FLess(Raw[j].score, Raw[i].score))
                    => ScoreOf(Raw[i].district) = FInt(0)

\* C6: when all districts (possibly a single one) have the same raw score, all
\* of them get one and the same readiness score, a number in [0,100].
C6_DegenerateFallback ==
    (/\ pc = "asri_done" /\ Len(Raw) > 0
     /\ \A i \in 1..Len(Raw) : IsNum(Raw[i].score) /\ Raw[i].score = Raw[1].score) =>
        \A k \in 1..Len(asri) :
            InRange(asri[k].score) /\ asri[k].score = asri[1].score

EnrolDistricts ==
    {monthly[i].district : i \in {j \in 1..Len(monthly) :
                                     monthly[j].source_type = "enrolment"}}
EnrolTotal(d) ==
    SumOver(monthly, {i \in 1..Len(monthly) :
                         monthly[i].source_type = "enrolment" /\ monthly[i].district = d})
UpdateTotal(d) ==
    SumOver(monthly, {i \in 1..Len(monthly) :
                         monthly[i].source_type # "enrolment" /\ monthly[i].district = d})

\* C9: every district with enrolment history has exactly one row of the raw
\* index, holding a number; for a district without flagged rows that number is
\* 0.4 * enrolment_total + 0.4 * update_total (update_total 0 without update rows).
C9_RawDefinedForEveryDistrict ==
    pc = "asri_raw" =>
        \A d \in EnrolDistricts :
            /\ Cardinality({k \in 1..Len(asri) : asri[k].district = d}) = 1
            /\ \A k \in 1..Len(asri) :
                  asri[k].district = d =>
                     /\ IsNum(asri[k].score)
                     /\ (\A j \in 1..Len(stale_regions) : stale_regions[j].district # d)
                           => asri[k].score = Frac(4 * (EnrolTotal(d) + UpdateTotal(d)), 10)

====
